---- MODULE Spec2Model ----
(***************************************************************************)
(* Model of arch/x86_64/src/device/display.rs: the VBE framebuffer driver  *)
(* (init, init_ap), the pixel primitives (Display::rect, Display::char)    *)
(* and the dirty-row renderer (Display::write) behind the DISPLAY mutex.   *)
(***************************************************************************)
EXTENDS Integers, Sequences, FiniteSets, TLC

VARIABLES
    modeInfo,       \* the VBEModeInfo record at 0x5200 (fields the code reads)
    pageTable,      \* per core: the identity mappings of its ActivePageTable
    fb,             \* the u32 cells at physbaseptr, cell index -> colour
    DISPLAY,        \* the content of the Mutex: None or a Display
    lock,           \* the Mutex itself: NoCore or the core holding it
    pc,             \* per core: position in init / init_ap / a write call
    overflowChecks, \* build: TRUE = arithmetic overflow panics, FALSE = wraps
    fault,          \* "none", "panic" or "pagefault" (unmapped memory touched)
    op,             \* the last operation that ran, with its arguments
    pre,            \* fb as it was when the last operation started
    touched,        \* the cell indices the last operation stored to
    calls,          \* the rect/char calls the last write issued, in order
    hist            \* counters: operations run, zero fills, Displays built

vars == <<modeInfo, pageTable, fb, DISPLAY, lock, pc, overflowChecks, fault,
          op, pre, touched, calls, hist>>

(***************************************************************************)
(* Bounds                                                                  *)
(***************************************************************************)
UsizeBits == 20          \* usize is modelled UsizeBits wide
MaxWrites == 2           \* write calls per behaviour

USIZE_MOD == 2 ^ UsizeBits
USIZE_MAX == USIZE_MOD - 1

None == [none |-> TRUE]
NoCore == "nocore"
Panic == 0 - 1

Min(a, b) == IF a <= b THEN a ELSE b

AllOf(n, v) == [i \in 1..n |-> v]

(***************************************************************************)
(* usize arithmetic: an overflow panics when the build checks overflow and *)
(* wraps otherwise.  Panic is absorbing.                                   *)
(***************************************************************************)
Add(a, b, chk) ==
    IF a = Panic \/ b = Panic THEN Panic
    ELSE IF a + b > USIZE_MAX THEN (IF chk THEN Panic ELSE (a + b) % USIZE_MOD)
    ELSE a + b

Sub(a, b, chk) ==
    IF a = Panic \/ b = Panic THEN Panic
    ELSE IF a < b THEN (IF chk THEN Panic ELSE (a - b + USIZE_MOD) % USIZE_MOD)
    ELSE a - b

Mul(a, b, chk) ==
    IF a = Panic \/ b = Panic THEN Panic
    ELSE IF a * b > USIZE_MAX THEN (IF chk THEN Panic ELSE (a * b) % USIZE_MOD)
    ELSE a * b

(***************************************************************************)
(* FONT: 16 bytes per codepoint, one byte per glyph row.                   *)
(***************************************************************************)
SPACE == 32
FontLen == 552

FONT ==
    [i \in 0..(FontLen - 1) |->
        LET g == i \div 16
            r == i % 16
        IN  CASE g = 1  -> 130
              [] g = 2  -> IF r = 14 THEN 255 ELSE 0
              [] g = 33 -> IF r \in 2..11 THEN 24 ELSE 0
              [] OTHER  -> 0]

Bit(byte, n) == (byte \div (2 ^ n)) % 2

\* is bit (7 - col) of row `row` of codepoint c's glyph set?
GlyphHas(c, row, col) == Bit(FONT[16 * c + row], 7 - col) = 1

\* mutant of GlyphBit: the columns are read from the least significant bit
GlyphBitLsb(row_data, col) == Bit(row_data, col) = 1

\* (row_data >> (7 - col)) & 1 == 1
GlyphBit(row_data, col) == Bit(row_data, 7 - col) = 1

(***************************************************************************)
(* Display::rect                                                           *)
(***************************************************************************)
Result(data, t, f) == [data |-> data, touched |-> t, fault |-> f]

\* Evaluation note: a value used more than once is bound by a singleton
\* comprehension, CHOOSE r \in {F(v) : v \in {e}} : TRUE, which is F(e) with e
\* evaluated once.

\* for y in start_y..end_y: the slice data[offset..offset + len] is filled
RECURSIVE RectRows(_, _, _, _, _, _, _, _, _)
RectRows(data, t, y, end_y, width, start_x, len, color, chk) ==
    IF y >= end_y THEN Result(data, t, FALSE)
    ELSE
        LET offset == Add(Mul(y, width, chk), start_x, chk)
            end    == Add(offset, len, chk)
        IN  IF offset = Panic \/ end = Panic THEN Result(data, t, TRUE)
            ELSE IF offset > end \/ end > Len(data) THEN Result(data, t, TRUE)
            ELSE CHOOSE r \in
                    {RectRows(nd, nt, ny, end_y, width, start_x, len, color, chk) :
                        nd \in {SubSeq(data, 1, offset) \o AllOf(len, color)
                                    \o SubSeq(data, end + 1, Len(data))},
                        nt \in {t \cup offset..(end - 1)},
                        ny \in {y + 1}} : TRUE

\* mutant of rect: the row length is the requested width, not the clipped one
rectUnclipped(d, data, x, y, w, h, color, chk) ==
    LET hm1     == Sub(d.height, 1, chk)
        yh      == Add(y, h, chk)
        wm1     == Sub(d.width, 1, chk)
        xw      == Add(x, w, chk)
    IN  IF hm1 = Panic \/ yh = Panic \/ wm1 = Panic \/ xw = Panic
        THEN Result(data, {}, TRUE)
        ELSE RectRows(data, {}, Min(hm1, y), Min(d.height, yh), d.width,
                      Min(wm1, x), w, color, chk)

rect(d, data, x, y, w, h, color, chk) ==
    LET hm1     == Sub(d.height, 1, chk)
        yh      == Add(y, h, chk)
        wm1     == Sub(d.width, 1, chk)
        xw      == Add(x, w, chk)
    IN  IF hm1 = Panic \/ yh = Panic \/ wm1 = Panic \/ xw = Panic
        THEN Result(data, {}, TRUE)
        ELSE
            LET start_y == Min(hm1, y)
                end_y   == Min(d.height, yh)
                start_x == Min(wm1, x)
                len     == Sub(Min(d.width, xw), start_x, chk)
            IN  IF len = Panic THEN Result(data, {}, TRUE)
                ELSE RectRows(data, {}, start_y, end_y, d.width, start_x,
                              len, color, chk)

(***************************************************************************)
(* Display::char                                                           *)
(***************************************************************************)
RECURSIVE CharCols(_, _, _, _, _, _, _)
CharCols(data, t, offset, row_data, col, color, chk) ==
    IF col >= 8 THEN Result(data, t, FALSE)
    ELSE IF GlyphBit(row_data, col)
    THEN LET i == Add(offset, col, chk)
         IN  IF i = Panic \/ i >= Len(data) THEN Result(data, t, TRUE)
             ELSE CHOOSE r \in
                    {CharCols(nd, nt, offset, row_data, nc, color, chk) :
                        nd \in {[data EXCEPT ![i + 1] = color]},
                        nt \in {t \cup {i}},
                        nc \in {col + 1}} : TRUE
    ELSE CHOOSE r \in {CharCols(data, t, offset, row_data, nc, color, chk) :
                          nc \in {col + 1}} : TRUE

RECURSIVE CharRows(_, _, _, _, _, _, _, _)
CharRows(data, t, offset, font_i, row, width, color, chk) ==
    IF row >= 16 THEN Result(data, t, FALSE)
    ELSE
        CHOOSE res \in
            {IF r.fault \/ next = Panic THEN Result(r.data, r.touched, TRUE)
             ELSE CharRows(r.data, r.touched, next, font_i, nrow, width,
                           color, chk) :
                r \in {CharCols(data, t, offset, FONT[font_i + row], 0, color,
                                chk)},
                next \in {Add(offset, width, chk)},
                nrow \in {row + 1}} : TRUE

\* mutant of char: a codepoint beyond the table is drawn with a glyph of it
charFallback(d, data, x, y, character, color, chk) ==
    LET x8  == Add(x, 8, chk)
        y16 == Add(y, 16, chk)
    IN  IF x8 = Panic THEN Result(data, {}, TRUE)
        ELSE IF ~(x8 <= d.width) THEN Result(data, {}, FALSE)
        ELSE IF y16 = Panic THEN Result(data, {}, TRUE)
        ELSE IF ~(y16 <= d.height) THEN Result(data, {}, FALSE)
        ELSE
            LET offset == Add(Mul(y, d.width, chk), x, chk)
                font_i == 16 * (character % (FontLen \div 16 - 1))
            IN  IF offset = Panic THEN Result(data, {}, TRUE)
                ELSE CharRows(data, {}, offset, font_i, 0, d.width, color, chk)

char(d, data, x, y, character, color, chk) ==
    LET x8  == Add(x, 8, chk)
        y16 == Add(y, 16, chk)
    IN  IF x8 = Panic THEN Result(data, {}, TRUE)
        ELSE IF ~(x8 <= d.width) THEN Result(data, {}, FALSE)
        ELSE IF y16 = Panic THEN Result(data, {}, TRUE)
        ELSE IF ~(y16 <= d.height) THEN Result(data, {}, FALSE)
        ELSE
            LET offset == Add(Mul(y, d.width, chk), x, chk)
                font_i == Mul(16, character, chk)
                fi16   == Add(font_i, 16, chk)
            IN  IF offset = Panic \/ fi16 = Panic THEN Result(data, {}, TRUE)
                ELSE IF fi16 <= FontLen
                THEN CharRows(data, {}, offset, font_i, 0, d.width, color, chk)
                ELSE Result(data, {}, FALSE)

(***************************************************************************)
(* The text-state machine (ransid::Console) as Display uses it: the fields *)
(* w, h, display, changed, x, y, cursor, redraw.                           *)
(***************************************************************************)
Block(c, fg, bg, u) == [c |-> c, fg |-> fg, bg |-> bg, underlined |-> u]

Console_new(w, h) ==
    [w |-> w, h |-> h,
     display |-> [k \in 1..(w * h) |-> Block(SPACE, 7, 0, FALSE)],
     changed |-> [y \in 1..h |-> TRUE],
     x |-> 0, y |-> 0, cursor |-> TRUE, redraw |-> TRUE]

(***************************************************************************)
(* Display::new: the Display over `len` cells starting at `start`.  The    *)
(* cells themselves are the memory fb.                                     *)
(***************************************************************************)
\* mutant of Display_new: the console grid is rounded up, not down
Display_newCeil(width, height, start, len) ==
    [width |-> width, height |-> height, start |-> start, len |-> len,
     console |-> Console_new((width + 7) \div 8, (height + 15) \div 16)]

Display_new(width, height, start, len) ==
    [width |-> width, height |-> height, start |-> start, len |-> len,
     console |-> Console_new(width \div 8, height \div 16)]

(***************************************************************************)
(* Display::write, the render pass                                         *)
(***************************************************************************)
Call(name, x, y, w, h, c, color) ==
    [name |-> name, x |-> x, y |-> y, w |-> w, h |-> h, c |-> c, color |-> color]

Pass(data, t, cs, f) == [data |-> data, touched |-> t, calls |-> cs, fault |-> f]

\* mutant of CellColors: the cursor's cell is inverted even when hidden
CellColorsHidden(con, block, x, y) ==
    IF con.y = y /\ con.x = x
    THEN <<block.fg, block.bg>>
    ELSE <<block.bg, block.fg>>

\* the (bg, fg) pair a cell is painted with
CellColors(con, block, x, y) ==
    IF con.cursor /\ con.y = y /\ con.x = x
    THEN <<block.fg, block.bg>>
    ELSE <<block.bg, block.fg>>

\* one cell: the background, the glyph unless it is a space, the underline
PaintGlyph(d, st, block, px, py, fg, chk) ==
    IF block.c # SPACE
    THEN CHOOSE p \in
            {Pass(r.data, st.touched \cup r.touched,
                  Append(st.calls, Call("char", px, py, 0, 0, block.c, fg)),
                  r.fault) :
                r \in {char(d, st.data, px, py, block.c, fg, chk)}} : TRUE
    ELSE st

\* mutant of PaintUnderline: the strip is drawn in the block's own fg
PaintUnderlineOwnFg(d, st, block, px, py, fg, chk) ==
    IF block.underlined
    THEN CHOOSE p \in
            {Pass(r.data, st.touched \cup r.touched,
                  Append(st.calls, Call("rect", px, uy, 8, 1, 0, block.fg)),
                  r.fault) :
                uy \in {Add(py, 14, chk)},
                r \in {rect(d, st.data, px, Add(py, 14, chk), 8, 1, block.fg,
                            chk)}} : TRUE
    ELSE st

PaintUnderline(d, st, block, px, py, fg, chk) ==
    IF block.underlined
    THEN CHOOSE p \in
            {Pass(r.data, st.touched \cup r.touched,
                  Append(st.calls, Call("rect", px, uy, 8, 1, 0, fg)),
                  r.fault) :
                uy \in {Add(py, 14, chk)},
                r \in {rect(d, st.data, px, Add(py, 14, chk), 8, 1, fg, chk)}} : TRUE
    ELSE st

PaintBackground(d, st, px, py, bg, chk) ==
    CHOOSE p \in
        {Pass(r.data, st.touched \cup r.touched,
              Append(st.calls, Call("rect", px, py, 8, 16, 0, bg)),
              r.fault) :
            r \in {rect(d, st.data, px, py, 8, 16, bg, chk)}} : TRUE

PaintCell(d, st, con, x, y, chk) ==
    CHOOSE p \in
        {IF s1.fault THEN s1
         ELSE CHOOSE q \in
                {IF s2.fault THEN s2
                 ELSE PaintUnderline(d, s2, block, px, py, col[2], chk) :
                    s2 \in {PaintGlyph(d, s1, block, px, py, col[2], chk)}} : TRUE :
            block \in {con.display[y * con.w + x + 1]},
            col \in {CellColors(con, con.display[y * con.w + x + 1], x, y)},
            px \in {Mul(x, 8, chk)},
            py \in {Mul(y, 16, chk)},
            s1 \in {PaintBackground(d, st, Mul(x, 8, chk), Mul(y, 16, chk),
                                    CellColors(con, con.display[y * con.w + x + 1],
                                               x, y)[1], chk)}} : TRUE

\* mutant of RenderCells: every row is painted, changed or not
RECURSIVE RenderCellsAll(_, _, _, _, _)
RenderCellsAll(d, st, con, k, chk) ==
    IF k >= con.w * con.h \/ st.fault THEN st
    ELSE CHOOSE p \in
            {RenderCellsAll(d, ns, con, nk, chk) :
                ns \in {PaintCell(d, st, con, k % con.w, k \div con.w, chk)},
                nk \in {k + 1}} : TRUE

\* for y in 0..console.h, if changed[y]: for x in 0..console.w
RECURSIVE RenderCells(_, _, _, _, _)
RenderCells(d, st, con, k, chk) ==
    IF k >= con.w * con.h \/ st.fault THEN st
    ELSE CHOOSE p \in
            {RenderCells(d, ns, con, nk, chk) :
                ns \in {IF con.changed[(k \div con.w) + 1]
                        THEN PaintCell(d, st, con, k % con.w, k \div con.w, chk)
                        ELSE st},
                nk \in {k + 1}} : TRUE

\* mutant of Display_write: the render pass runs whatever redraw says
Display_writeAlways(d, data, out, chk) ==
    CHOOSE r \in
        {[console |-> [out EXCEPT !.redraw = FALSE,
                                  !.changed = [y \in 1..out.h |-> FALSE]],
          data |-> st.data, touched |-> st.touched, calls |-> st.calls,
          fault |-> st.fault] :
            st \in {RenderCells(d, Pass(data, {}, <<>>, FALSE), out, 0,
                                chk)}} : TRUE

\* mutant of Display_write: the rows' changed flags survive the render
Display_writeKeepFlags(d, data, out, chk) ==
    IF out.redraw
    THEN CHOOSE r \in
            {[console |-> [out EXCEPT !.redraw = FALSE],
              data |-> st.data, touched |-> st.touched, calls |-> st.calls,
              fault |-> st.fault] :
                st \in {RenderCells(d, Pass(data, {}, <<>>, FALSE), out, 0,
                                    chk)}} : TRUE
    ELSE [console |-> out, data |-> data, touched |-> {}, calls |-> <<>>,
          fault |-> FALSE]

\* `out` is the console as console.write(bytes) left it
Display_write(d, data, out, chk) ==
    IF out.redraw
    THEN CHOOSE r \in
            {[console |-> [out EXCEPT !.redraw = FALSE,
                                      !.changed = [y \in 1..out.h |-> FALSE]],
              data |-> st.data, touched |-> st.touched, calls |-> st.calls,
              fault |-> st.fault] :
                st \in {RenderCells(d, Pass(data, {}, <<>>, FALSE), out, 0,
                                    chk)}} : TRUE
    ELSE [console |-> out, data |-> data, touched |-> {}, calls |-> <<>>,
          fault |-> FALSE]

(***************************************************************************)
(* The cores                                                               *)
(***************************************************************************)
BSP == "bsp"
Cores == {BSP, "ap1"}

NoOp == [name |-> "none"]

(***************************************************************************)
(* SpecPrim: rect and char applied to arguments drawn at Init.             *)
(***************************************************************************)
PrimDims == {<<9, 17>>, <<3, 2>>, <<0, 0>>}
PrimColors == {1, 2}
Probe(S) == {v \in S : v >= 0 /\ v <= USIZE_MAX}

RectArgs(W, H) ==
    {Call("rect", x, y, w, h, 0, color) :
        x \in Probe({0, 1, W - 1, W, W + 1, USIZE_MAX}),
        y \in Probe({0, H - 1, H, USIZE_MAX}),
        w \in {0, 1, 8, 100, USIZE_MAX},
        h \in {0, 1, 16, USIZE_MAX},
        color \in PrimColors}

CharArgs(W, H) ==
    {Call("char", x, y, 0, 0, c, color) :
        x \in Probe({0, 1, 2, W - 8, USIZE_MAX - 3}),
        y \in Probe({0, 1, 2, H - 16, USIZE_MAX - 7}),
        c \in {1, 2, 33, SPACE, 34},
        color \in PrimColors}

InitPrim ==
    /\ \E dim \in PrimDims :
        /\ modeInfo = [physbaseptr |-> 16 * 4096, xresolution |-> dim[1],
                       yresolution |-> dim[2]]
        /\ DISPLAY = Display_new(dim[1], dim[2], 16 * 4096, dim[1] * dim[2])
        /\ fb \in {AllOf(dim[1] * dim[2], 0), AllOf(dim[1] * dim[2], 7)}
        /\ op \in RectArgs(dim[1], dim[2]) \cup CharArgs(dim[1], dim[2])
    /\ pageTable = [c \in Cores |-> {}]
    /\ lock = NoCore
    /\ pc = [c \in Cores |-> "prim"]
    /\ overflowChecks \in BOOLEAN
    /\ fault = "none"
    /\ pre = fb
    /\ touched = {}
    /\ calls = <<>>
    /\ hist = [ops |-> 0, writes |-> 0, zeroFills |-> 0, built |-> 0]

PrimApply(r) ==
    /\ fb' = r.data
    /\ touched' = r.touched
    /\ fault' = IF r.fault THEN "panic" ELSE "none"
    /\ pre' = fb
    /\ hist' = [hist EXCEPT !.ops = 1]
    /\ UNCHANGED <<modeInfo, pageTable, DISPLAY, lock, pc, overflowChecks,
                   op, calls>>

PrimRect ==
    /\ pc[BSP] = "prim" /\ hist.ops = 0 /\ op.name = "rect"
    /\ \E r \in {rect(DISPLAY, fb, op.x, op.y, op.w, op.h, op.color,
                      overflowChecks)} : PrimApply(r)

PrimChar ==
    /\ pc[BSP] = "prim" /\ hist.ops = 0 /\ op.name = "char"
    /\ \E r \in {char(DISPLAY, fb, op.x, op.y, op.c, op.color,
                      overflowChecks)} : PrimApply(r)

NextPrim == PrimRect \/ PrimChar

SpecPrim == InitPrim /\ [][NextPrim]_vars


(***************************************************************************)
(* Physical memory and page tables                                         *)
(***************************************************************************)
PAGE_SIZE == 4096
MODE_INFO_ADDR == 20992        \* 0x5200

\* Frame::containing_address
Frame(addr) == addr \div PAGE_SIZE

InfoFlags == {"PRESENT", "NO_EXECUTE"}
FbFlags == {"PRESENT", "WRITABLE", "NO_EXECUTE"}

\* ActivePageTable::identity_map of a set of frames
IdentityMap(table, frames, flags) ==
    table \cup {[frame |-> f, flags |-> flags] : f \in frames}

Mapped(table, f, flag) == \E m \in table : m.frame = f /\ flag \in m.flags

\* width * height
FbSize(mi) == mi.xresolution * mi.yresolution

\* mutant of FbFrames: the end frame is taken from the cell count, not the
\* byte count
FbFramesCells(mi) ==
    Frame(mi.physbaseptr)..Frame(mi.physbaseptr + FbSize(mi) - 1)

\* Frame::range_inclusive(start_frame, end_frame)
FbFrames(mi) ==
    Frame(mi.physbaseptr)..Frame(mi.physbaseptr + FbSize(mi) * 4 - 1)

\* the frames holding the bytes of cell i of the region at physbaseptr
CellFrames(mi, i) ==
    {Frame(mi.physbaseptr + 4 * i + b) : b \in 0..3}

\* core c stores to the cells `cs`: is every byte of them mapped writable?
CanStore(c, cs) ==
    \A i \in cs : \A f \in CellFrames(modeInfo, i) :
        Mapped(pageTable[c], f, "PRESENT") /\ Mapped(pageTable[c], f, "WRITABLE")

(***************************************************************************)
(* What console.write(bytes) may leave behind.  The text-state machine is  *)
(* a collaborator; the renderer reads its fields as data.                  *)
(***************************************************************************)
\* the console of the registered Display, if any
Console == IF DISPLAY = None THEN None ELSE DISPLAY.console

Blocks ==
    {Block(33, 1, 2, FALSE), Block(1, 2, 1, TRUE),
     Block(SPACE, 1, 2, TRUE), Block(34, 1, 2, FALSE)}

Rows(con) == 0..(con.h - 1)

Mark(con, ys) ==
    [con EXCEPT !.changed = [y \in 1..con.h |->
                                con.changed[y] \/ (y - 1) \in ys]]

\* a character printed into cell k: the cursor moves right of it
Put(con, k, b) ==
    [Mark(con, {k \div con.w}) EXCEPT
        !.display[k + 1] = b, !.x = (k % con.w) + 1, !.y = k \div con.w,
        !.redraw = TRUE]

MoveCursor(con, x, y) ==
    [Mark(con, {con.y, y}) EXCEPT !.x = x, !.y = y, !.redraw = TRUE]

ShowCursor(con, v) ==
    [Mark(con, {con.y}) EXCEPT !.cursor = v, !.redraw = TRUE]

Outcomes(con) ==
    IF con = None THEN {} ELSE
    {con, [con EXCEPT !.redraw = TRUE]}
    \cup {Put(con, k, b) : k \in {0, con.w * con.h - 1}, b \in Blocks}
    \cup {MoveCursor(con, x, y) : x \in 0..con.w, y \in Rows(con)}
    \cup {ShowCursor(con, v) : v \in BOOLEAN}
    \cup {Mark(con, {y}) : y \in Rows(con)}

BootOutcomes(con) ==
    IF con = None THEN {} ELSE
    {con}
    \cup {Put(con, k, Block(33, 1, 2, FALSE)) : k \in {0} \cap 0..(con.w * con.h - 1)}
    \cup {Mark(con, {y}) : y \in {1} \cap Rows(con)}

(***************************************************************************)
(* init (the primary core)                                                 *)
(***************************************************************************)
Goto(c, l) == pc' = [pc EXCEPT ![c] = l]

\* a core enters its init routine once, when it boots
BootEntry(c) == pc[c] = "boot"

\* a core calls write only after its own init routine has returned
Running(c) == pc[c] = "run"

InitMapInfo ==
    /\ BootEntry(BSP) /\ fault = "none"
    /\ pageTable' = [pageTable EXCEPT
           ![BSP] = IdentityMap(@, {Frame(MODE_INFO_ADDR)}, InfoFlags)]
    /\ Goto(BSP, "init_read")
    /\ UNCHANGED <<modeInfo, fb, DISPLAY, lock, overflowChecks, fault, op,
                   pre, touched, calls, hist>>

\* mutant of InitRead: the framebuffer branch is taken for every record
InitReadAlways ==
    /\ pc[BSP] = "init_read" /\ fault = "none"
    /\ fault' = IF Mapped(pageTable[BSP], Frame(MODE_INFO_ADDR), "PRESENT")
                THEN "none" ELSE "pagefault"
    /\ Goto(BSP, "init_map")
    /\ UNCHANGED <<modeInfo, pageTable, fb, DISPLAY, lock, overflowChecks,
                   op, pre, touched, calls, hist>>

\* let mode_info = &*(0x5200 as *const VBEModeInfo); if physbaseptr > 0
InitRead ==
    /\ pc[BSP] = "init_read" /\ fault = "none"
    /\ fault' = IF Mapped(pageTable[BSP], Frame(MODE_INFO_ADDR), "PRESENT")
                THEN "none" ELSE "pagefault"
    /\ Goto(BSP, IF modeInfo.physbaseptr > 0 THEN "init_map" ELSE "run")
    /\ UNCHANGED <<modeInfo, pageTable, fb, DISPLAY, lock, overflowChecks,
                   op, pre, touched, calls, hist>>

InitMapFb ==
    /\ pc[BSP] = "init_map" /\ fault = "none"
    /\ pageTable' = [pageTable EXCEPT
           ![BSP] = IdentityMap(@, FbFrames(modeInfo), FbFlags)]
    /\ Goto(BSP, "init_zero")
    /\ UNCHANGED <<modeInfo, fb, DISPLAY, lock, overflowChecks, fault, op,
                   pre, touched, calls, hist>>

\* mutant of InitMemset: the fill covers size bytes, a quarter of the region
InitMemsetBytes ==
    /\ pc[BSP] = "init_zero" /\ fault = "none"
    /\ fb' = AllOf(FbSize(modeInfo) \div 4, 0)
                \o SubSeq(fb, FbSize(modeInfo) \div 4 + 1, Len(fb))
    /\ pre' = fb
    /\ touched' = 0..(FbSize(modeInfo) \div 4 - 1)
    /\ calls' = <<>>
    /\ op' = [name |-> "memset", core |-> BSP]
    /\ fault' = IF CanStore(BSP, 0..(FbSize(modeInfo) \div 4 - 1))
                THEN "none" ELSE "pagefault"
    /\ hist' = [hist EXCEPT !.zeroFills = @ + 1]
    /\ Goto(BSP, "init_store")
    /\ UNCHANGED <<modeInfo, pageTable, DISPLAY, lock, overflowChecks>>

\* memset(start as *mut u8, 0, size * 4)
InitMemset ==
    /\ pc[BSP] = "init_zero" /\ fault = "none"
    /\ fb' = AllOf(FbSize(modeInfo), 0) \o <<>>
    /\ pre' = fb
    /\ touched' = 0..(FbSize(modeInfo) - 1)
    /\ calls' = <<>>
    /\ op' = [name |-> "memset", core |-> BSP]
    /\ fault' = IF CanStore(BSP, 0..(FbSize(modeInfo) - 1))
                THEN "none" ELSE "pagefault"
    /\ hist' = [hist EXCEPT !.zeroFills = @ + 1]
    /\ Goto(BSP, "init_store")
    /\ UNCHANGED <<modeInfo, pageTable, DISPLAY, lock, overflowChecks>>

\* *DISPLAY.lock() = Some(Display::new(width, height, from_raw_parts_mut(..)))
InitStore ==
    /\ pc[BSP] = "init_store" /\ fault = "none"
    /\ lock = NoCore
    /\ DISPLAY' = Display_new(modeInfo.xresolution, modeInfo.yresolution,
                              modeInfo.physbaseptr, FbSize(modeInfo))
    /\ hist' = [hist EXCEPT !.built = @ + 1]
    /\ Goto(BSP, "run")
    /\ UNCHANGED <<modeInfo, pageTable, fb, lock, overflowChecks, fault, op,
                   pre, touched, calls>>

(***************************************************************************)
(* init_ap (every secondary core)                                          *)
(***************************************************************************)
ApMapInfo(c) ==
    /\ c # BSP /\ BootEntry(c) /\ fault = "none"
    /\ pageTable' = [pageTable EXCEPT
           ![c] = IdentityMap(@, {Frame(MODE_INFO_ADDR)}, InfoFlags)]
    /\ Goto(c, "ap_read")
    /\ UNCHANGED <<modeInfo, fb, DISPLAY, lock, overflowChecks, fault, op,
                   pre, touched, calls, hist>>

ApRead(c) ==
    /\ c # BSP /\ pc[c] = "ap_read" /\ fault = "none"
    /\ fault' = IF Mapped(pageTable[c], Frame(MODE_INFO_ADDR), "PRESENT")
                THEN "none" ELSE "pagefault"
    /\ Goto(c, IF modeInfo.physbaseptr > 0 THEN "ap_map" ELSE "run")
    /\ UNCHANGED <<modeInfo, pageTable, fb, DISPLAY, lock, overflowChecks,
                   op, pre, touched, calls, hist>>

\* mutant of ApEffect: init_ap builds and stores a Display as init does
ApEffectRebuild(c) ==
    /\ op' = [name |-> "init_ap", core |-> c]
    /\ pre' = fb
    /\ touched' = {}
    /\ calls' = <<>>
    /\ DISPLAY' = Display_new(modeInfo.xresolution, modeInfo.yresolution,
                              modeInfo.physbaseptr, FbSize(modeInfo))
    /\ hist' = [hist EXCEPT !.built = @ + 1]
    /\ UNCHANGED fb

\* mutant of ApEffect: init_ap zeroes the region as init does
ApEffectZero(c) ==
    /\ op' = [name |-> "init_ap", core |-> c]
    /\ pre' = fb
    /\ touched' = 0..(FbSize(modeInfo) - 1)
    /\ calls' = <<>>
    /\ fb' = AllOf(FbSize(modeInfo), 0) \o <<>>
    /\ hist' = [hist EXCEPT !.zeroFills = @ + 1]
    /\ UNCHANGED DISPLAY

\* what the last step of init_ap does to the memory and the registry
ApEffect(c) ==
    /\ op' = [name |-> "init_ap", core |-> c]
    /\ pre' = fb
    /\ touched' = {}
    /\ calls' = <<>>
    /\ UNCHANGED <<fb, DISPLAY, hist>>

\* mutant of ApMapFb: init_ap returns without mapping the framebuffer
ApMapFbSkip(c) ==
    /\ c # BSP /\ pc[c] = "ap_map" /\ fault = "none"
    /\ Goto(c, "run")
    /\ ApEffect(c)
    /\ UNCHANGED <<modeInfo, pageTable, lock, overflowChecks, fault>>

ApMapFb(c) ==
    /\ c # BSP /\ pc[c] = "ap_map" /\ fault = "none"
    /\ pageTable' = [pageTable EXCEPT
           ![c] = IdentityMap(@, FbFrames(modeInfo), FbFlags)]
    /\ Goto(c, "run")
    /\ ApEffect(c)
    /\ UNCHANGED <<modeInfo, lock, overflowChecks, fault>>

(***************************************************************************)
(* A write call on the registered Display, through the DISPLAY mutex       *)
(***************************************************************************)
\* mutant of WriteLock: the mutex is taken without waiting for it
WriteLockNoSpin(c) ==
    /\ Running(c) /\ fault = "none"
    /\ hist.writes < MaxWrites
    /\ lock' = c
    /\ Goto(c, "locked")
    /\ hist' = [hist EXCEPT !.writes = @ + 1]
    /\ UNCHANGED <<modeInfo, pageTable, fb, DISPLAY, overflowChecks, fault,
                   op, pre, touched, calls>>

\* DISPLAY.lock(): spins until the mutex is free
WriteLock(c) ==
    /\ Running(c) /\ fault = "none"
    /\ hist.writes < MaxWrites
    /\ lock = NoCore
    /\ lock' = c
    /\ Goto(c, "locked")
    /\ hist' = [hist EXCEPT !.writes = @ + 1]
    /\ UNCHANGED <<modeInfo, pageTable, fb, DISPLAY, overflowChecks, fault,
                   op, pre, touched, calls>>

\* Display::write under the guard; nothing to do when the registry is empty
WriteBody(c, out) ==
    /\ pc[c] = "locked" /\ fault = "none"
    /\ DISPLAY # None
    /\ \E r \in {Display_write(DISPLAY, fb, out, overflowChecks)} :
           /\ DISPLAY' = [DISPLAY EXCEPT !.console = r.console]
           /\ fb' = r.data
           /\ pre' = fb
           /\ touched' = r.touched
           /\ calls' = r.calls
           /\ op' = [name |-> "write", core |-> c, con |-> out]
           /\ fault' = IF r.fault THEN "panic"
                       ELSE IF CanStore(c, r.touched) THEN "none"
                       ELSE "pagefault"
    /\ Goto(c, "unlock")
    /\ UNCHANGED <<modeInfo, pageTable, lock, overflowChecks, hist>>

WriteNone(c) ==
    /\ pc[c] = "locked" /\ fault = "none"
    /\ DISPLAY = None
    /\ Goto(c, "unlock")
    /\ UNCHANGED <<modeInfo, pageTable, fb, DISPLAY, lock, overflowChecks,
                   fault, op, pre, touched, calls, hist>>

\* the guard is dropped
WriteUnlock(c) ==
    /\ pc[c] = "unlock" /\ fault = "none"
    /\ lock' = NoCore
    /\ Goto(c, "run")
    /\ UNCHANGED <<modeInfo, pageTable, fb, DISPLAY, overflowChecks, fault,
                   op, pre, touched, calls, hist>>

(***************************************************************************)
(* Spec: boot on every core, then write calls from any core.               *)
(***************************************************************************)
ModeInfos ==
    {[physbaseptr |-> 0, xresolution |-> 8, yresolution |-> 32],
     [physbaseptr |-> 8 * PAGE_SIZE - 512, xresolution |-> 8, yresolution |-> 32],
     [physbaseptr |-> 8 * PAGE_SIZE, xresolution |-> 9, yresolution |-> 17]}

Init ==
    /\ modeInfo \in ModeInfos
    /\ pageTable = [c \in Cores |-> {}]
    /\ fb = AllOf(FbSize(modeInfo), 9)
    /\ DISPLAY = None
    /\ lock = NoCore
    /\ pc = [c \in Cores |-> "boot"]
    /\ overflowChecks \in BOOLEAN
    /\ fault = "none"
    /\ op = NoOp
    /\ pre = fb
    /\ touched = {}
    /\ calls = <<>>
    /\ hist = [ops |-> 0, writes |-> 0, zeroFills |-> 0, built |-> 0]

Next ==
    \/ InitMapInfo
    \/ InitRead
    \/ InitMapFb
    \/ InitMemset
    \/ InitStore
    \/ \E c \in Cores : ApMapInfo(c)
    \/ \E c \in Cores : ApRead(c)
    \/ \E c \in Cores : ApMapFb(c)
    \/ \E c \in Cores : WriteLock(c)
    \/ \E c \in Cores : \E out \in BootOutcomes(Console) : WriteBody(c, out)
    \/ \E c \in Cores : WriteNone(c)
    \/ \E c \in Cores : WriteUnlock(c)

Spec == Init /\ [][Next]_vars

(***************************************************************************)
(* SpecWrite: the booted system, one core writing, every console outcome.  *)
(***************************************************************************)
WriteModeInfos ==
    {[physbaseptr |-> 8 * PAGE_SIZE - 1024, xresolution |-> 16, yresolution |-> 32],
     [physbaseptr |-> 8 * PAGE_SIZE, xresolution |-> 17, yresolution |-> 33]}

Booted(mi) ==
    IdentityMap(IdentityMap({}, {Frame(MODE_INFO_ADDR)}, InfoFlags),
                FbFrames(mi), FbFlags)

InitWrite ==
    /\ modeInfo \in WriteModeInfos
    /\ pageTable = [c \in Cores |-> Booted(modeInfo)]
    /\ fb = AllOf(FbSize(modeInfo), 0)
    /\ DISPLAY = Display_new(modeInfo.xresolution, modeInfo.yresolution,
                             modeInfo.physbaseptr, FbSize(modeInfo))
    /\ lock = NoCore
    /\ pc = [c \in Cores |-> "run"]
    /\ overflowChecks \in BOOLEAN
    /\ fault = "none"
    /\ op = NoOp
    /\ pre = fb
    /\ touched = {}
    /\ calls = <<>>
    /\ hist = [ops |-> 0, writes |-> 0, zeroFills |-> 1, built |-> 1]

NextWrite ==
    \/ WriteLock(BSP)
    \/ \E out \in Outcomes(Console) : WriteBody(BSP, out)
    \/ WriteUnlock(BSP)

SpecWrite == InitWrite /\ [][NextWrite]_vars

(***************************************************************************)
(* Claims about Display::write (checked under SpecWrite)                   *)
(***************************************************************************)
WriteRan == op.name = "write"
Width == DISPLAY.width
\* the rows the console reported changed when the render began
ChangedRows == {y \in Rows(op.con) : op.con.changed[y + 1]}
Band(i) == (i \div Width) \div 16
Pixel(px, py) == fb[py * Width + px + 1]

\* C1: when the console reports redraw = FALSE after consuming the bytes,
\* write leaves every pixel as it was and stores to none, whatever the
\* changed flags say.
C1_NoRedrawNoPixels ==
    (WriteRan /\ ~op.con.redraw) =>
        (fb = pre /\ touched = {} /\ calls = <<>>)

C1_Witness ==
    /\ WriteRan /\ ~op.con.redraw
    /\ \E y \in Rows(op.con) : op.con.changed[y + 1]
    /\ \E i \in 1..Len(fb) : fb[i] # 0
    /\ fb = pre

\* C2: a render with the rows R marked changed stores only into the bands
\* [16r, 16r+16) of rows r in R, stores to every pixel of every cell of
\* those rows (columns below 8 * console width), and leaves every pixel of
\* the other bands as it was.
C2_OnlyChangedBands ==
    (WriteRan /\ op.con.redraw) =>
        /\ \A i \in touched : Band(i) \in ChangedRows
        /\ \A r \in ChangedRows : \A py \in (16 * r)..(16 * r + 15) :
              \A px \in 0..(8 * op.con.w - 1) : (py * Width + px) \in touched
        /\ \A i \in 0..(Len(fb) - 1) :
              Band(i) \notin ChangedRows => fb[i + 1] = pre[i + 1]

C2_Witness ==
    /\ WriteRan /\ op.con.redraw
    /\ op.con.h = 2 /\ ChangedRows = {0}
    /\ touched # {}
    /\ fb # pre
    /\ \E i \in 0..(Len(fb) - 1) : Band(i) = 1 /\ fb[i + 1] # 0

\* C9: in a render pass a cell is painted with fg and bg swapped exactly
\* when the cursor is visible and the cell is at the cursor position the
\* console reports after consuming the bytes; every other cell of a changed
\* row is painted with its own (bg, fg).
CursorAt(x, y) == op.con.cursor /\ op.con.x = x /\ op.con.y = y
BlockAt(x, y) == op.con.display[y * op.con.w + x + 1]
BgOf(x, y) == IF CursorAt(x, y) THEN BlockAt(x, y).fg ELSE BlockAt(x, y).bg
FgOf(x, y) == IF CursorAt(x, y) THEN BlockAt(x, y).bg ELSE BlockAt(x, y).fg
InFont(c) == 16 * c + 16 <= FontLen
Foreground(b, col, row) ==
    \/ b.underlined /\ row = 14
    \/ b.c # SPACE /\ InFont(b.c) /\ GlyphHas(b.c, row, col)
CallsOf(x, y) ==
    {j \in 1..Len(calls) : calls[j].x = 8 * x /\ calls[j].y \div 16 = y}

C9_CursorCellInverted ==
    (WriteRan /\ op.con.redraw) =>
        \A y \in ChangedRows : \A x \in 0..(op.con.w - 1) :
            /\ \E j \in CallsOf(x, y) :
                  calls[j] = Call("rect", 8 * x, 16 * y, 8, 16, 0, BgOf(x, y))
            /\ \A j \in CallsOf(x, y) :
                  calls[j].color = IF calls[j].name = "rect" /\ calls[j].h = 16
                                   THEN BgOf(x, y) ELSE FgOf(x, y)
            /\ \A col \in 0..7, row \in 0..15 :
                  /\ Pixel(8 * x + col, 16 * y + row) \in {BgOf(x, y), FgOf(x, y)}
                  /\ ~Foreground(BlockAt(x, y), col, row)
                        => Pixel(8 * x + col, 16 * y + row) = BgOf(x, y)

C9_Witness ==
    /\ WriteRan /\ op.con.redraw
    /\ op.con.w = 2 /\ 0 \in ChangedRows
    /\ CursorAt(1, 0)
    /\ BlockAt(1, 0).fg # BlockAt(1, 0).bg
    /\ Pixel(8, 0) = BlockAt(1, 0).fg
    /\ BlockAt(0, 0).c = 33
    /\ Pixel(0, 0) = BlockAt(0, 0).bg
    /\ Pixel(3, 2) = BlockAt(0, 0).fg

(***************************************************************************)
(* Claims about boot and the registry (checked under Spec)                 *)
(***************************************************************************)
InWrite(c) == pc[c] \in {"locked", "unlock"}
PreStore == {"boot", "init_read", "init_map", "init_zero", "init_store"}
ApInit == {"boot", "ap_read", "ap_map"}
Region == 0..(FbSize(modeInfo) - 1)

\* C4: write calls on the registered Display are serialised by the mutex:
\* at most one core at a time is between the start and the end of a write,
\* and that core holds the lock.
C4_WritesSerialised ==
    /\ \A c1, c2 \in Cores : (InWrite(c1) /\ InWrite(c2)) => c1 = c2
    /\ \A c \in Cores : InWrite(c) => lock = c

C4_Witness ==
    /\ pc[BSP] = "unlock" /\ lock = BSP
    /\ WriteRan /\ op.core = BSP /\ touched # {}
    /\ Running("ap1") /\ hist.writes < MaxWrites

C6_NoFramebuffer ==
    (modeInfo.physbaseptr = 0 /\ pc[BSP] \notin {"boot", "init_read"}) =>
        /\ Running(BSP) \/ InWrite(BSP)
        /\ fault = "none"
        /\ pageTable[BSP] = {[frame |-> Frame(MODE_INFO_ADDR), flags |-> InfoFlags]}
        /\ hist.zeroFills = 0
        /\ fb = AllOf(FbSize(modeInfo), 9)
        /\ DISPLAY = None

C6_Witness ==
    /\ modeInfo.physbaseptr = 0
    /\ Running(BSP) /\ Running("ap1")
    /\ hist.writes > 0

\* C7: a step of init_ap changes only the calling core's page table: the
\* pixels, the registry (presence and console), the zero-fill and Display
\* counts and the other cores' page tables are as before.
C7_InitApFrame ==
    [][\A c \in Cores \ {BSP} :
          (pc[c] \in ApInit /\ pc'[c] # pc[c]) =>
              /\ fb' = fb
              /\ DISPLAY' = DISPLAY
              /\ hist' = hist
              /\ \A c2 \in Cores \ {c} : pageTable'[c2] = pageTable[c2]]_vars

C7_Witness ==
    /\ op.name = "init_ap" /\ Running(op.core)
    /\ DISPLAY # None /\ ~DISPLAY.console.redraw
    /\ fb = pre
    /\ \E i \in 1..Len(fb) : fb[i] = 2
    /\ \A f \in FbFrames(modeInfo) : Mapped(pageTable[op.core], f, "WRITABLE")

\* C8: in init the page of the mode-info record is mapped before the record
\* is read, and every page holding a byte of the width*height*4-byte region
\* is identity-mapped present+writable+no-execute before the zero fill and
\* before the Display over the region is built.
C8_MapBeforeDeref ==
    /\ pc[BSP] = "init_read" =>
          [frame |-> Frame(MODE_INFO_ADDR), flags |-> InfoFlags] \in pageTable[BSP]
    /\ pc[BSP] \in {"init_zero", "init_store"} =>
          \A i \in Region : \A f \in CellFrames(modeInfo, i) :
              [frame |-> f, flags |-> FbFlags] \in pageTable[BSP]
    /\ pc[BSP] \in {"init_map", "init_zero", "init_store"} => fault = "none"

C8_Witness ==
    /\ pc[BSP] = "init_store"
    /\ op.name = "memset" /\ fault = "none"
    /\ Cardinality(FbFrames(modeInfo)) = 2
    /\ \A i \in 1..Len(fb) : fb[i] = 0 /\ pre[i] = 9

(***************************************************************************)
(* Claims about the pixel primitives (checked under SpecPrim)              *)
(***************************************************************************)
Cells == 0..(DISPLAY.width * DISPLAY.height - 1)
RectRan == op.name = "rect" /\ hist.ops = 1
CharRan == op.name = "char" /\ hist.ops = 1

\* C3 (as claimed): for all arguments (x, y, w, h, color), also x >= W,
\* y >= H, very large or zero w and h, rect stores only to cells inside the
\* W*H buffer and never faults or computes an index outside it.
C3_RectNeverFaults ==
    (RectRan /\ DISPLAY.width >= 1 /\ DISPLAY.height >= 1) =>
        (fault = "none" /\ touched \subseteq Cells)

\* C10: when the 8x16 cell fits on the screen and the codepoint is in the
\* font table, char sets exactly the pixels whose glyph bit (7-col) of row
\* `row` is set to color and leaves every other pixel as it was; on a zeroed
\* buffer a glyph with a set bit changes at least one pixel to color.
CharFits ==
    /\ op.x + 8 <= DISPLAY.width
    /\ op.y + 16 <= DISPLAY.height
    /\ 16 * op.c + 16 <= FontLen

C10_CharPaintsGlyph ==
    (CharRan /\ CharFits) =>
        /\ fault = "none"
        /\ \A i \in Cells :
              LET col == (i % DISPLAY.width) - op.x
                  row == (i \div DISPLAY.width) - op.y
              IN  fb[i + 1] = IF /\ row \in 0..15
                                 /\ col \in 0..7
                                 /\ GlyphHas(op.c, row, col)
                              THEN op.color ELSE pre[i + 1]
        /\ ( /\ \A i \in Cells : pre[i + 1] = 0
             /\ \E row \in 0..15, col \in 0..7 : GlyphHas(op.c, row, col) )
           => \E i \in Cells : fb[i + 1] = op.color /\ pre[i + 1] # op.color

C10_Witness ==
    /\ CharRan /\ CharFits /\ op.c = 1 /\ op.x = 1 /\ op.y = 1
    /\ \A i \in Cells : pre[i + 1] = 0
    /\ fb[DISPLAY.width + 1 + 1] = op.color
    /\ fb[DISPLAY.width + 1 + 2] = 0

\* C11: a rect that starts on the screen (x < width) and runs past the right
\* edge (x + w > width) is clipped to the edge: every row it fills receives
\* exactly the width - x pixels of columns x..width-1, in color; and
\* rect(width-1, 0, 100, 1, C) stores exactly one pixel, column width-1 of
\* row 0.
RowCells(r, from, to) == {r * DISPLAY.width + c : c \in from..to}
TouchedIn(r) == {i \in touched : i \div DISPLAY.width = r}

C11_RectClipsRight ==
    (RectRan /\ op.x < DISPLAY.width /\ op.x + op.w > DISPLAY.width) =>
        /\ \A r \in 0..(DISPLAY.height - 1) :
              \/ TouchedIn(r) = {}
              \/ /\ TouchedIn(r) = RowCells(r, op.x, DISPLAY.width - 1)
                 /\ \A i \in TouchedIn(r) : fb[i + 1] = op.color
        /\ (op.x = DISPLAY.width - 1 /\ op.y = 0 /\ op.w = 100 /\ op.h = 1) =>
              /\ fault = "none"
              /\ touched = {DISPLAY.width - 1}
              /\ \A i \in Cells :
                    fb[i + 1] = IF i = DISPLAY.width - 1 THEN op.color
                                ELSE pre[i + 1]

C11_Witness ==
    /\ RectRan /\ DISPLAY.width = 9
    /\ op.x = 8 /\ op.y = 0 /\ op.w = 100 /\ op.h = 1
    /\ touched = {8}
    /\ fb[9] = op.color /\ pre[9] # op.color
    /\ fb[8] = pre[8] /\ fb[10] = pre[10]

\* C12 (as claimed): after rect(x, y, w, h, color) pixel (px, py) equals
\* color if x <= px < min(width, x+w) and y <= py < min(height, y+h) and
\* every other pixel is unchanged; a rectangle entirely outside the screen
\* (x >= width or y >= height) stores no pixel.
NoOverflow == op.x + op.w <= USIZE_MAX /\ op.y + op.h <= USIZE_MAX
InRect(i) ==
    /\ op.x <= i % DISPLAY.width
    /\ i % DISPLAY.width < Min(DISPLAY.width, op.x + op.w)
    /\ op.y <= i \div DISPLAY.width
    /\ i \div DISPLAY.width < Min(DISPLAY.height, op.y + op.h)

C12_RectFillsIntersection ==
    (RectRan /\ NoOverflow /\ DISPLAY.width >= 1 /\ DISPLAY.height >= 1) =>
        /\ fault = "none"
        /\ \A i \in Cells : fb[i + 1] = IF InRect(i) THEN op.color ELSE pre[i + 1]
        /\ (op.x >= DISPLAY.width \/ op.y >= DISPLAY.height) => touched = {}

\* C13 (as claimed): for every x and y, on or off the screen, rect with
\* w = 0 or h = 0 leaves every pixel unchanged and does not fault.
C13_DegenerateRectNoOp ==
    (RectRan /\ (op.w = 0 \/ op.h = 0) /\ NoOverflow
        /\ DISPLAY.width >= 1 /\ DISPLAY.height >= 1) =>
        (fault = "none" /\ fb = pre /\ touched = {})

\* C14 (as claimed): for every (x, y, codepoint, color) with x + 8 > width
\* or y + 16 > height, char leaves the buffer unchanged, computes no index
\* outside it and does not fault.
C14_CharOffScreenNoOp ==
    (CharRan /\ (op.x + 8 > DISPLAY.width \/ op.y + 16 > DISPLAY.height)) =>
        (fault = "none" /\ fb = pre /\ touched = {})

\* C15: char with a codepoint beyond the font table (16 * codepoint + 16 >
\* font length) at a position where the cell fits changes no pixel, stores
\* nothing and does not fault: the 8x16 region keeps what was painted before.
C15_CharBeyondFontNoOp ==
    (CharRan /\ op.x + 8 <= DISPLAY.width /\ op.y + 16 <= DISPLAY.height
        /\ 16 * op.c + 16 > FontLen) =>
        (fault = "none" /\ fb = pre /\ touched = {})

C15_Witness ==
    /\ CharRan /\ op.c = 34 /\ 16 * op.c + 16 > FontLen
    /\ op.x = 1 /\ op.y = 1 /\ DISPLAY.width = 9 /\ DISPLAY.height = 17
    /\ fault = "none"
    /\ \A i \in Cells : fb[i + 1] = 7 /\ pre[i + 1] = 7
    /\ op.color # 7

(***************************************************************************)
(* Further claims about Display::write (checked under SpecWrite)           *)
(***************************************************************************)
\* C16: each cell of a changed row is painted by the calls background rect,
\* then char (only when the character is not a space), then underline rect,
\* in that order and with the possibly cursor-swapped colours; after the
\* pass pixel (col, row) of the cell is fg if the cell is underlined and
\* row = 14, else fg if the character is not a space, is in the font table
\* and has glyph bit (7 - col) of row set, else bg.
ExpectedCalls(x, y) ==
    <<Call("rect", 8 * x, 16 * y, 8, 16, 0, BgOf(x, y))>>
    \o (IF BlockAt(x, y).c # SPACE
        THEN <<Call("char", 8 * x, 16 * y, 0, 0, BlockAt(x, y).c, FgOf(x, y))>>
        ELSE <<>>)
    \o (IF BlockAt(x, y).underlined
        THEN <<Call("rect", 8 * x, 16 * y + 14, 8, 1, 0, FgOf(x, y))>>
        ELSE <<>>)

ExpectedPixel(x, y, col, row) ==
    IF BlockAt(x, y).underlined /\ row = 14 THEN FgOf(x, y)
    ELSE IF /\ BlockAt(x, y).c # SPACE
            /\ InFont(BlockAt(x, y).c)
            /\ GlyphHas(BlockAt(x, y).c, row, col)
         THEN FgOf(x, y)
    ELSE BgOf(x, y)

C16_PaintOrder ==
    (WriteRan /\ op.con.redraw) =>
        \A y \in ChangedRows : \A x \in 0..(op.con.w - 1) :
            /\ \E j \in 1..Len(calls) :
                  /\ CallsOf(x, y) = j..(j + Len(ExpectedCalls(x, y)) - 1)
                  /\ j + Len(ExpectedCalls(x, y)) - 1 <= Len(calls)
                  /\ SubSeq(calls, j, j + Len(ExpectedCalls(x, y)) - 1)
                        = ExpectedCalls(x, y)
            /\ \A col \in 0..7, row \in 0..15 :
                  Pixel(8 * x + col, 16 * y + row) = ExpectedPixel(x, y, col, row)

C16_Witness ==
    /\ WriteRan /\ op.con.redraw /\ 0 \in ChangedRows
    /\ CursorAt(0, 0)
    /\ BlockAt(0, 0) = Block(1, 2, 1, TRUE)
    /\ Len(ExpectedCalls(0, 0)) = 3
    /\ Pixel(0, 0) = 1 /\ Pixel(1, 0) = 2
    /\ Pixel(1, 14) = 1 /\ Pixel(1, 15) = 2

\* C17: dirty flags are consumed exactly once.  After a write returns redraw
\* is false; if redraw was true when the render began every changed flag is
\* false on return and the rest of the console is as console.write left it;
\* if redraw was false the changed flags are kept as they were and nothing
\* is painted, so a write that finds nothing new does no pixel work.
C17_DirtyFlagsConsumed ==
    WriteRan =>
        /\ ~DISPLAY.console.redraw
        /\ op.con.redraw =>
              DISPLAY.console =
                  [op.con EXCEPT !.redraw = FALSE,
                                 !.changed = [y \in 1..op.con.h |-> FALSE]]
        /\ ~op.con.redraw =>
              /\ DISPLAY.console = op.con
              /\ touched = {} /\ calls = <<>> /\ fb = pre

C17_Witness ==
    /\ WriteRan /\ hist.writes = 2 /\ ~op.con.redraw
    /\ DISPLAY.console.changed[1] /\ ~DISPLAY.console.changed[2]
    /\ touched = {}
    /\ \E i \in 1..Len(fb) : fb[i] # 0

(***************************************************************************)
(* Further claims about boot and the cores (checked under Spec)            *)
(***************************************************************************)
\* C18: the bulk zero fill happens before any render.  The Display is
\* stored only after all width*height cells of the region were zeroed, a
\* zero fill runs at most once and only while the registry is still empty,
\* so no write has painted before it and none is erased by it.
ZeroFilled == \A i \in 1..Len(fb) : fb[i] = 0

CallInside(call) ==
    /\ call.x + 8 <= DISPLAY.width
    /\ IF call.name = "char"
       THEN call.y + 16 <= DISPLAY.height
       ELSE call.w = 8 /\ call.y + call.h <= DISPLAY.height

C20_RenderInsideScreen ==
    /\ Len(fb) = DISPLAY.width * DISPLAY.height
    /\ DISPLAY.len = Len(fb)
    /\ DISPLAY.console.w = DISPLAY.width \div 8
    /\ DISPLAY.console.h = DISPLAY.height \div 16
    /\ Len(DISPLAY.console.display) = DISPLAY.console.w * DISPLAY.console.h
    /\ WriteRan =>
          /\ fault = "none"
          /\ touched \subseteq 0..(Len(fb) - 1)
          /\ \A j \in 1..Len(calls) : CallInside(calls[j])
          /\ op.con.redraw =>
                Cardinality(touched) =
                    128 * op.con.w * Cardinality(ChangedRows)

C20_Witness ==
    /\ WriteRan /\ op.con.redraw /\ fault = "none"
    /\ DISPLAY.width = 17 /\ DISPLAY.height = 33
    /\ ChangedRows = {0, 1}
    /\ Cardinality(touched) = 512
    /\ \E j \in 1..Len(calls) :
          calls[j].name = "char" /\ calls[j].x = 8 /\ calls[j].y = 16
    /\ 16 \notin touched
    /\ \A i \in touched : i \div 17 < 32

====
